---- MODULE Spec2Model ----
(***************************************************************************)
(* ThemeKit's GeneratedAssetSymbols.h: the asset-catalog symbol table.     *)
(*                                                                         *)
(* The header declares 17 `static NSString * const` constants: the         *)
(* resource bundle ID and one name constant per catalog colour.  Each      *)
(* declaration is modelled as a record                                     *)
(*   kind   : what the doc comment above the declaration says it is,      *)
(*   asset  : the asset name quoted in that doc comment,                   *)
(*   symbol : the declared C identifier,                                   *)
(*   value  : the NSString literal it is bound to,                         *)
(* with every string written out as the sequence of its characters, so     *)
(* that prefixes, capitalisation and ordering are computed, not assumed.   *)
(*                                                                         *)
(* The only thing compiled code can do with the header is reference a      *)
(* constant; Read(r, s) is reader r evaluating the symbol s.               *)
(***************************************************************************)
EXTENDS Naturals, Sequences, FiniteSets

VARIABLES
    table,  \* the bindings in the compiled image: symbol -> string value
    got     \* got[r]: the last (symbol, value) reader r obtained, or NoRead

vars == <<table, got>>

\* Number of concurrently running readers of the constants.
NumReaders == 2

Readers == 1..NumReaders

(***************************************************************************)
(* The declarations, in the order of the header.                           *)
(***************************************************************************)
\* GeneratedAssetSymbols.h:9-10
ACBundleID ==
    [kind |-> "bundle",
     asset |-> <<>>,
     symbol |-> <<"A", "C", "B", "u", "n", "d", "l", "e", "I", "D">>,
     value |-> <<"t", "h", "e", "m", "e", "k", "i", "t", ".", "T", "h", "e", "m", "e", "K", "i", "t">>]

\* GeneratedAssetSymbols.h:12-13
ACColorNameBubblegum ==
    [kind |-> "color",
     asset |-> <<"b", "u", "b", "b", "l", "e", "g", "u", "m">>,
     symbol |-> <<"A", "C", "C", "o", "l", "o", "r", "N", "a", "m", "e", "B", "u", "b", "b", "l", "e", "g", "u", "m">>,
     value |-> <<"b", "u", "b", "b", "l", "e", "g", "u", "m">>]

\* GeneratedAssetSymbols.h:15-16
ACColorNameButtercup ==
    [kind |-> "color",
     asset |-> <<"b", "u", "t", "t", "e", "r", "c", "u", "p">>,
     symbol |-> <<"A", "C", "C", "o", "l", "o", "r", "N", "a", "m", "e", "B", "u", "t", "t", "e", "r", "c", "u", "p">>,
     value |-> <<"b", "u", "t", "t", "e", "r", "c", "u", "p">>]

\* GeneratedAssetSymbols.h:18-19
ACColorNameIndigo ==
    [kind |-> "color",
     asset |-> <<"i", "n", "d", "i", "g", "o">>,
     symbol |-> <<"A", "C", "C", "o", "l", "o", "r", "N", "a", "m", "e", "I", "n", "d", "i", "g", "o">>,
     value |-> <<"i", "n", "d", "i", "g", "o">>]

\* GeneratedAssetSymbols.h:21-22
ACColorNameLavender ==
    [kind |-> "color",
     asset |-> <<"l", "a", "v", "e", "n", "d", "e", "r">>,
     symbol |-> <<"A", "C", "C", "o", "l", "o", "r", "N", "a", "m", "e", "L", "a", "v", "e", "n", "d", "e", "r">>,
     value |-> <<"l", "a", "v", "e", "n", "d", "e", "r">>]

\* GeneratedAssetSymbols.h:24-25
ACColorNameMagenta ==
    [kind |-> "color",
     asset |-> <<"m", "a", "g", "e", "n", "t", "a">>,
     symbol |-> <<"A", "C", "C", "o", "l", "o", "r", "N", "a", "m", "e", "M", "a", "g", "e", "n", "t", "a">>,
     value |-> <<"m", "a", "g", "e", "n", "t", "a">>]

\* GeneratedAssetSymbols.h:27-28
ACColorNameNavy ==
    [kind |-> "color",
     asset |-> <<"n", "a", "v", "y">>,
     symbol |-> <<"A", "C", "C", "o", "l", "o", "r", "N", "a", "m", "e", "N", "a", "v", "y">>,
     value |-> <<"n", "a", "v", "y">>]

\* GeneratedAssetSymbols.h:30-31
ACColorNameOrange ==
    [kind |-> "color",
     asset |-> <<"o", "r", "a", "n", "g", "e">>,
     symbol |-> <<"A", "C", "C", "o", "l", "o", "r", "N", "a", "m", "e", "O", "r", "a", "n", "g", "e">>,
     value |-> <<"o", "r", "a", "n", "g", "e">>]

\* GeneratedAssetSymbols.h:33-34
ACColorNameOxblood ==
    [kind |-> "color",
     asset |-> <<"o", "x", "b", "l", "o", "o", "d">>,
     symbol |-> <<"A", "C", "C", "o", "l", "o", "r", "N", "a", "m", "e", "O", "x", "b", "l", "o", "o", "d">>,
     value |-> <<"o", "x", "b", "l", "o", "o", "d">>]

\* A faulty emission of the next declaration: the value literal misspelt: it no longer names the asset of the doc comment.
ACColorNamePeriwinkle_Misspelt ==
    [kind |-> "color",
     asset |-> <<"p", "e", "r", "i", "w", "i", "n", "k", "l", "e">>,
     symbol |-> <<"A", "C", "C", "o", "l", "o", "r", "N", "a", "m", "e", "P", "e", "r", "i", "w", "i", "n", "k", "l", "e">>,
     value |-> <<"p", "e", "r", "i", "w", "i", "n", "k", "e", "l">>]

\* GeneratedAssetSymbols.h:36-37
ACColorNamePeriwinkle ==
    [kind |-> "color",
     asset |-> <<"p", "e", "r", "i", "w", "i", "n", "k", "l", "e">>,
     symbol |-> <<"A", "C", "C", "o", "l", "o", "r", "N", "a", "m", "e", "P", "e", "r", "i", "w", "i", "n", "k", "l", "e">>,
     value |-> <<"p", "e", "r", "i", "w", "i", "n", "k", "l", "e">>]

\* GeneratedAssetSymbols.h:39-40
ACColorNamePoppy ==
    [kind |-> "color",
     asset |-> <<"p", "o", "p", "p", "y">>,
     symbol |-> <<"A", "C", "C", "o", "l", "o", "r", "N", "a", "m", "e", "P", "o", "p", "p", "y">>,
     value |-> <<"p", "o", "p", "p", "y">>]

\* GeneratedAssetSymbols.h:42-43
ACColorNamePurple ==
    [kind |-> "color",
     asset |-> <<"p", "u", "r", "p", "l", "e">>,
     symbol |-> <<"A", "C", "C", "o", "l", "o", "r", "N", "a", "m", "e", "P", "u", "r", "p", "l", "e">>,
     value |-> <<"p", "u", "r", "p", "l", "e">>]

\* GeneratedAssetSymbols.h:45-46
ACColorNameSeafoam ==
    [kind |-> "color",
     asset |-> <<"s", "e", "a", "f", "o", "a", "m">>,
     symbol |-> <<"A", "C", "C", "o", "l", "o", "r", "N", "a", "m", "e", "S", "e", "a", "f", "o", "a", "m">>,
     value |-> <<"s", "e", "a", "f", "o", "a", "m">>]

\* GeneratedAssetSymbols.h:48-49
ACColorNameSky ==
    [kind |-> "color",
     asset |-> <<"s", "k", "y">>,
     symbol |-> <<"A", "C", "C", "o", "l", "o", "r", "N", "a", "m", "e", "S", "k", "y">>,
     value |-> <<"s", "k", "y">>]

\* GeneratedAssetSymbols.h:51-52
ACColorNameTan ==
    [kind |-> "color",
     asset |-> <<"t", "a", "n">>,
     symbol |-> <<"A", "C", "C", "o", "l", "o", "r", "N", "a", "m", "e", "T", "a", "n">>,
     value |-> <<"t", "a", "n">>]

\* A faulty emission of the next declaration: the value literal copied from
\* the declaration above it.
ACColorNameTeal_CopiedValue ==
    [kind |-> "color",
     asset |-> <<"t", "e", "a", "l">>,
     symbol |-> <<"A", "C", "C", "o", "l", "o", "r", "N", "a", "m", "e", "T", "e", "a", "l">>,
     value |-> <<"t", "a", "n">>]

\* GeneratedAssetSymbols.h:54-55
ACColorNameTeal ==
    [kind |-> "color",
     asset |-> <<"t", "e", "a", "l">>,
     symbol |-> <<"A", "C", "C", "o", "l", "o", "r", "N", "a", "m", "e", "T", "e", "a", "l">>,
     value |-> <<"t", "e", "a", "l">>]

\* GeneratedAssetSymbols.h:57-58
ACColorNameYellow ==
    [kind |-> "color",
     asset |-> <<"y", "e", "l", "l", "o", "w">>,
     symbol |-> <<"A", "C", "C", "o", "l", "o", "r", "N", "a", "m", "e", "Y", "e", "l", "l", "o", "w">>,
     value |-> <<"y", "e", "l", "l", "o", "w">>]

(***************************************************************************)
(* Variants of the header that a faulty generation would emit.  They are   *)
(* used only to show that the properties below depend on the declarations. *)
(***************************************************************************)

\* An image asset's constant emitted next to the colours.
ACImageNameLogo ==
    [kind |-> "image",
     asset |-> <<"l", "o", "g", "o">>,
     symbol |-> <<"A", "C", "I", "m", "a", "g", "e", "N", "a", "m", "e", "L", "o", "g", "o">>,
     value |-> <<"l", "o", "g", "o">>]

\* The symbol ACColorNameSky declared twice.
Header_Redeclared ==
    <<ACBundleID,
      ACColorNameBubblegum, ACColorNameButtercup, ACColorNameIndigo,
      ACColorNameLavender, ACColorNameMagenta, ACColorNameNavy,
      ACColorNameOrange, ACColorNameOxblood, ACColorNamePeriwinkle,
      ACColorNamePoppy, ACColorNamePurple, ACColorNameSeafoam,
      ACColorNameSky,
      [ACColorNameTan EXCEPT !.symbol = ACColorNameSky.symbol],
      ACColorNameTeal, ACColorNameYellow>>

\* 17 declarations still, but one colour replaced by an image constant.
Header_WithImage ==
    <<ACBundleID,
      ACColorNameBubblegum, ACColorNameButtercup, ACColorNameIndigo,
      ACColorNameLavender, ACImageNameLogo, ACColorNameNavy,
      ACColorNameOrange, ACColorNameOxblood, ACColorNamePeriwinkle,
      ACColorNamePoppy, ACColorNamePurple, ACColorNameSeafoam,
      ACColorNameSky, ACColorNameTan, ACColorNameTeal, ACColorNameYellow>>

\* The declarations emitted in catalog (insertion) order instead of sorted.
Header_Unsorted ==
    <<ACBundleID,
      ACColorNameBubblegum, ACColorNameButtercup, ACColorNameIndigo,
      ACColorNameLavender, ACColorNameMagenta, ACColorNameNavy,
      ACColorNameOxblood, ACColorNameOrange, ACColorNamePeriwinkle,
      ACColorNamePoppy, ACColorNamePurple, ACColorNameSeafoam,
      ACColorNameSky, ACColorNameTan, ACColorNameTeal, ACColorNameYellow>>

(***************************************************************************)
(* The header: the declarations in file order (lines 9-58).                *)
(***************************************************************************)
Header ==
    <<ACBundleID,
      ACColorNameBubblegum, ACColorNameButtercup, ACColorNameIndigo,
      ACColorNameLavender, ACColorNameMagenta, ACColorNameNavy,
      ACColorNameOrange, ACColorNameOxblood, ACColorNamePeriwinkle,
      ACColorNamePoppy, ACColorNamePurple, ACColorNameSeafoam,
      ACColorNameSky, ACColorNameTan, ACColorNameTeal, ACColorNameYellow>>

DeclIndices == 1..Len(Header)

\* The identifiers the header declares.
Symbols == {Header[i].symbol : i \in DeclIndices}

\* The declaration that binds symbol s.
DeclOf(s) == Header[CHOOSE i \in DeclIndices : Header[i].symbol = s]

\* What the compiler makes of the header: each declared symbol bound to its
\* string literal.
Bindings == [s \in Symbols |-> DeclOf(s).value]

\* A reader that has not referenced any constant yet.
NoRead == [symbol |-> <<>>, value |-> <<>>]

Init ==
    /\ table = Bindings
    /\ got = [r \in Readers |-> NoRead]

\* A reference that also rebinds the symbol, as an assignment through a
\* non-const pointer would.
Read_Rebind(r, s) ==
    /\ s \in DOMAIN table
    /\ got' = [got EXCEPT ![r] = [symbol |-> s, value |-> table[s]]]
    /\ table' = [table EXCEPT ![s] = <<>>]

\* A reference that takes a per-symbol lock held by the last reader of s.
Read_Exclusive(r, s) ==
    /\ s \in DOMAIN table
    /\ \A q \in Readers \ {r} : got[q].symbol # s
    /\ got' = [got EXCEPT ![r] = [symbol |-> s, value |-> table[s]]]
    /\ UNCHANGED table

\* Reader r references the constant s: an expression that evaluates the
\* `static NSString * const` and yields the string it is bound to.  The
\* declaration is const, so there is nothing to write and nothing to wait for.
Read(r, s) ==
    /\ s \in DOMAIN table
    /\ got' = [got EXCEPT ![r] = [symbol |-> s, value |-> table[s]]]
    /\ UNCHANGED table

Next == \E r \in Readers : \E s \in Symbols : Read(r, s)

Spec == Init /\ [][Next]_vars

(***************************************************************************)
(* Character-level helpers for stating the properties.                     *)
(***************************************************************************)
LowerCase ==
    <<"a", "b", "c", "d", "e", "f", "g", "h", "i", "j", "k", "l", "m",
      "n", "o", "p", "q", "r", "s", "t", "u", "v", "w", "x", "y", "z">>

UpperCase ==
    <<"A", "B", "C", "D", "E", "F", "G", "H", "I", "J", "K", "L", "M",
      "N", "O", "P", "Q", "R", "S", "T", "U", "V", "W", "X", "Y", "Z">>

IsLower(c) == \E i \in DOMAIN LowerCase : LowerCase[i] = c

IsUpper(c) == \E i \in DOMAIN UpperCase : UpperCase[i] = c

\* ASCII code of a character of the header's identifiers and literals.
Ord(c) ==
    IF IsLower(c) THEN 96 + (CHOOSE i \in DOMAIN LowerCase : LowerCase[i] = c)
    ELSE IF IsUpper(c) THEN 64 + (CHOOSE i \in DOMAIN UpperCase : UpperCase[i] = c)
    ELSE 46

ToUpper(c) ==
    IF IsLower(c) THEN UpperCase[CHOOSE i \in DOMAIN LowerCase : LowerCase[i] = c]
    ELSE c

\* The string with its first letter upper-cased.
Capitalize(str) ==
    IF str = <<>> THEN <<>> ELSE <<ToUpper(Head(str))>> \o Tail(str)

HasPrefix(str, p) ==
    /\ Len(p) <= Len(str)
    /\ SubSeq(str, 1, Len(p)) = p

\* Strict lexicographic order on strings, by character code.
RECURSIVE StrLess(_, _)
StrLess(a, b) ==
    IF b = <<>> THEN FALSE
    ELSE IF a = <<>> THEN TRUE
    ELSE IF Head(a) # Head(b) THEN Ord(Head(a)) < Ord(Head(b))
    ELSE StrLess(Tail(a), Tail(b))

ColorPrefix == <<"A", "C", "C", "o", "l", "o", "r", "N", "a", "m", "e">>

BundleValue ==
    <<"t", "h", "e", "m", "e", "k", "i", "t", ".",
      "T", "h", "e", "m", "e", "K", "i", "t">>

ColorIndices == {i \in DeclIndices : Header[i].kind = "color"}

BundleIndices == {i \in DeclIndices : Header[i].kind = "bundle"}

\* Every reader has referenced some constant.
AllHaveRead == \A r \in Readers : got[r] # NoRead

(***************************************************************************)
(* Properties.                                                             *)
(***************************************************************************)

\* C1: every declared constant is bound to a non-empty string, in the header
\* and in what any reader obtains, and every ACColorName* constant is bound
\* to exactly the asset name quoted in its doc comment.
C1_ValuesNonEmptyAndNameTheAsset ==
    /\ \A i \in DeclIndices :
          /\ Header[i].value # <<>>
          /\ HasPrefix(Header[i].symbol, ColorPrefix)
                => Header[i].value = Header[i].asset
    /\ \A s \in DOMAIN table : Len(table[s]) > 0
    /\ \A r \in Readers :
          got[r] # NoRead =>
             /\ Len(got[r].value) > 0
             /\ HasPrefix(got[r].symbol, ColorPrefix)
                   => got[r].value = DeclOf(got[r].symbol).asset

\* A reader has referenced ACColorNameBubblegum and holds "bubblegum", while
\* another holds the bundle ID.
C1_Witness ==
    \E r, q \in Readers :
       /\ got[r].symbol = ACColorNameBubblegum.symbol
       /\ got[r].value = <<"b", "u", "b", "b", "l", "e", "g", "u", "m">>
       /\ got[q].symbol = ACBundleID.symbol
       /\ got[q].value # <<>>

\* C2: the 17 declarations use 17 pairwise distinct names, so each name is
\* bound exactly once.
C2_NamesPairwiseDistinct ==
    /\ Len(Header) = 17
    /\ \A i, j \in DeclIndices :
          i # j => Header[i].symbol # Header[j].symbol
    /\ Cardinality(DOMAIN table) = Len(Header)

\* Two readers hold two different names, each with the value its own
\* declaration gives it.
C2_Witness ==
    \E r, q \in Readers :
       /\ got[r].symbol = ACColorNameSky.symbol
       /\ got[q].symbol = ACColorNameTan.symbol
       /\ got[r].value = ACColorNameSky.value
       /\ got[q].value = ACColorNameTan.value

\* C3: whatever the readers have done, the set of bound names is the set the
\* header declares and every name is bound to the value it was declared with.
C3_TableClosedAndImmutable ==
    /\ DOMAIN table = Symbols
    /\ \A s \in Symbols : table[s] = DeclOf(s).value
    /\ Cardinality(DOMAIN table) = Cardinality(DOMAIN Bindings)

\* Every reader has read, one of them the last declared constant, and the
\* table is as generated.
C3_Witness ==
    /\ AllHaveRead
    /\ \E r \in Readers : got[r].symbol = ACColorNameYellow.symbol
    /\ table = Bindings

\* C4: in every interleaving, what a reader holds for a name is the value the
\* name is declared with, two readers of the same name hold the same value,
\* and every reader can reference every constant at any time (no read waits
\* for another reader).
C4_ConcurrentReadsAgree ==
    /\ \A r \in Readers :
          got[r] # NoRead => got[r].value = DeclOf(got[r].symbol).value
    /\ \A r, q \in Readers :
          got[r].symbol = got[q].symbol => got[r].value = got[q].value
    /\ \A r \in Readers : \A s \in Symbols : ENABLED Read(r, s)

\* Two different readers hold the same name, with the same declared value.
C4_Witness ==
    \E r, q \in Readers :
       /\ r # q
       /\ got[r].symbol = ACColorNameIndigo.symbol
       /\ got[q].symbol = ACColorNameIndigo.symbol
       /\ got[r].value = got[q].value
       /\ got[r].value = ACColorNameIndigo.value

\* C5: exactly one declaration is the bundle identifier, it is ACBundleID
\* bound to "themekit.ThemeKit", and the 16 others are all ACColorName*
\* colour constants.
C5_OneBundleIDAndSixteenColors ==
    /\ Cardinality(BundleIndices) = 1
    /\ \A i \in BundleIndices :
          /\ Header[i].symbol = <<"A", "C", "B", "u", "n", "d", "l", "e", "I", "D">>
          /\ Header[i].value = BundleValue
          /\ table[Header[i].symbol] = BundleValue
    /\ Cardinality(ColorIndices) = 16
    /\ \A i \in DeclIndices \ BundleIndices :
          /\ Header[i].kind = "color"
          /\ HasPrefix(Header[i].symbol, ColorPrefix)
    /\ Cardinality(DOMAIN table) = 17

\* A reader has referenced ACBundleID and holds "themekit.ThemeKit".
C5_Witness ==
    \E r \in Readers :
       /\ got[r].symbol = ACBundleID.symbol
       /\ got[r].value = BundleValue

\* C8: the 17 bound values are pairwise distinct: different names never
\* yield the same string.
C8_ValuesPairwiseDistinct ==
    /\ \A i, j \in DeclIndices :
          i # j => Header[i].value # Header[j].value
    /\ \A s, u \in DOMAIN table : s # u => table[s] # table[u]
    /\ \A r, q \in Readers :
          (got[r] # NoRead /\ got[q] # NoRead /\ got[r].symbol # got[q].symbol)
             => got[r].value # got[q].value

\* Two readers hold the neighbouring names Tan and Teal, with different values.
C8_Witness ==
    \E r, q \in Readers :
       /\ got[r].symbol = ACColorNameTan.symbol
       /\ got[q].symbol = ACColorNameTeal.symbol
       /\ got[r].value # got[q].value

\* C9: every colour constant's symbol is "ACColorName" followed by its value
\* with the first letter upper-cased, and the colour constants are declared
\* in strictly ascending lexicographic order of their values.
C9_SymbolRuleAndSortedOrder ==
    /\ \A i \in ColorIndices :
          Header[i].symbol = ColorPrefix \o Capitalize(Header[i].value)
    /\ \A i, j \in ColorIndices :
          i < j => StrLess(Header[i].value, Header[j].value)
    /\ \A r \in Readers :
          (got[r] # NoRead /\ DeclOf(got[r].symbol).kind = "color")
             => got[r].symbol = ColorPrefix \o Capitalize(got[r].value)

\* A reader holds "periwinkle" under the symbol ACColorNamePeriwinkle, which
\* is the prefix followed by the capitalised value.
C9_Witness ==
    \E r \in Readers :
       /\ got[r].value = <<"p", "e", "r", "i", "w", "i", "n", "k", "l", "e">>
       /\ got[r].symbol = ColorPrefix \o Capitalize(got[r].value)
       /\ got[r].symbol = ACColorNamePeriwinkle.symbol

====
